---- MODULE Spec2Model ----
(***************************************************************************)
(* Stock ledger and balance accounting of inventory-pro-system             *)
(* (src/app.py): the four SQLite tables, the DB helpers that write them,   *)
(* the Streamlit handlers that call the helpers, and the balance loop of   *)
(* the "Stock & Credit" page.                                              *)
(*                                                                         *)
(* Columns that no modelled code reads (date, vehicle_name, site_name,     *)
(* remarks) are left out of the rows.  Quantities and amounts are REAL in  *)
(* the source; the model uses integers, so rounding of binary floating     *)
(* point sums is outside the model.                                        *)
(***************************************************************************)
EXTENDS Integers, Sequences, FiniteSets, TLC

\* ---------------------------------------------------------------- bounds
\* ids ever handed out by the transactions table plus items waiting in the cart
MaxTx == 2
\* rows ever inserted into payments
MaxPay == 1
\* rows ever inserted into expenses
MaxExp == 1
\* length of the id list passed to delete_records
MaxIds == 2
\* largest |current_stock| a handler may leave behind
MaxStock == 4
\* update_stock calls made by the concurrent sessions together
MaxCalls == 3

\* ------------------------------------------------------- input domains
\* two (category, item_type, unit) triples of INVENTORY_RULES
INVENTORY_RULES ==
    { <<"Cement", "JK Strong", "bag">>, <<"Stone/Crusher", "Khadi", "brass">> }

\* st.radio("Type", ["sale", "purchase"])
TransactionTypes == {"sale", "purchase"}

\* st.selectbox("Payment", ["cash", "credit"])
PayModes == {"cash", "credit"}

\* values of the "Party Name" header input; "" is the empty text input
PartyInputs == {"", "ABC Traders", "XYZ Supply"}

\* values of st.number_input("Quantity", min_value=0.1): positive only
QtyInputs == {2}

\* values of st.number_input("Rate", min_value=0.0)
RateInputs == {3}

\* values of st.number_input("Amount", min_value=0.0) on the payment form
PayAmtInputs == {0, 7}

\* values of st.number_input("Amount", min_value=0.0) on the expense form
ExpAmtInputs == {0, 3}

\* radio "Received (from Client)" / "Paid (to Dealer)" mapped to db_type
PaymentTypes == {"Inward", "Outward"}

EXPENSE_TYPES == {"Diesel"}

Tables == {"transactions", "expenses", "payments"}

\* ----------------------------------------------------------------- state
VARIABLES
    transactions,   \* table transactions: id -> row, the rows present
    stock_summary,  \* table stock_summary: key -> current_stock, the rows present
    payments,       \* table payments: id -> row
    expenses,       \* table expenses: id -> row
    seq,            \* AUTOINCREMENT counters: table -> largest id ever assigned
    leaked,         \* an abandoned connection still holds the write lock
    cart,           \* st.session_state.cart
    last,           \* the handler that ran last and how it ended
    pc              \* position of the handler running step by step (Steps only)

vars == <<transactions, stock_summary, payments, expenses, seq, leaked, cart, last, pc>>

\* the database as one value, so that the helpers are functions of it
DB ==
    [ transactions  |-> transactions,
      stock_summary |-> stock_summary,
      payments      |-> payments,
      expenses      |-> expenses,
      seq           |-> seq,
      leaked        |-> leaked,
      raised        |-> FALSE ]

\* ------------------------------------------------------------- utilities
RECURSIVE Sum(_, _)
Sum(f, S) ==
    IF S = {} THEN 0
    ELSE LET x == CHOOSE y \in S : TRUE
         IN  f[x] + Sum(f, S \ {x})

\* f with x removed from its domain
Drop(f, S) == [x \in (DOMAIN f) \ S |-> f[x]]

\* f with x |-> v added to its domain
Put(f, x, v) == [y \in (DOMAIN f) \cup {x} |-> IF y = x THEN v ELSE f[y]]

KeyOf(row) == <<row.category, row.item_type, row.unit>>

\* sqlite3.OperationalError("database is locked") leaves the tables as they are
Raise(D) == [D EXCEPT !.raised = TRUE]

\* ------------------------------------------------------------ DB helpers
\* INSERT ... ON CONFLICT DO UPDATE SET current_stock = current_stock + excluded
update_stock_overwrite(ss, key, qty_change) == Put(ss, key, qty_change)

update_stock(ss, key, qty_change) ==
    IF key \in DOMAIN ss
    THEN [ss EXCEPT ![key] = @ + qty_change]
    ELSE Put(ss, key, qty_change)

\* INSERT the row and commit, then update_stock on a connection of its own
insert_transaction_rowid(D, data) ==
    IF D.leaked THEN Raise(D)
    ELSE LET ids == DOMAIN D.transactions
             id  == IF ids = {} THEN 1
                    ELSE (CHOOSE m \in ids : \A x \in ids : x <= m) + 1
         IN  [D EXCEPT
                !.transactions  = Put(@, id, data),
                !.seq           = [@ EXCEPT !["transactions"] = id],
                !.stock_summary = update_stock(@, KeyOf(data), data.quantity)]

insert_transaction(D, data) ==
    IF D.leaked THEN Raise(D)
    ELSE LET id == D.seq["transactions"] + 1
         IN  [D EXCEPT
                !.transactions  = Put(@, id, data),
                !.seq           = [@ EXCEPT !["transactions"] = id],
                !.stock_summary = update_stock(@, KeyOf(data), data.quantity)]

insert_expense(D, data) ==
    IF D.leaked THEN Raise(D)
    ELSE LET id == D.seq["expenses"] + 1
         IN  [D EXCEPT
                !.expenses = Put(@, id, data),
                !.seq      = [@ EXCEPT !["expenses"] = id]]

insert_payment(D, data) ==
    IF D.leaked THEN Raise(D)
    ELSE LET id == D.seq["payments"] + 1
         IN  [D EXCEPT
                !.payments = Put(@, id, data),
                !.seq      = [@ EXCEPT !["payments"] = id]]

\* The loop of delete_records.  conn runs SELECT and DELETE; update_stock
\* writes and commits through a second connection.  The first DELETE opens a
\* write transaction on conn that stays open until conn.commit() after the
\* loop, so a later update_stock of the same call finds the database locked
\* and raises; conn is then abandoned with its DELETEs uncommitted (they are
\* rolled back) and keeps the lock until it is collected.
\*   ss      stock_summary as committed so far
\*   deleted ids deleted on conn, not yet committed
\*   locked  conn holds the write lock
RECURSIVE delete_loop(_, _, _, _, _, _)
delete_loop(D, table, ids, ss, deleted, locked) ==
    IF ids = <<>>
    THEN [D EXCEPT
            !.stock_summary = ss,
            !.transactions  = IF table = "transactions" THEN Drop(@, deleted) ELSE @,
            !.expenses      = IF table = "expenses" THEN Drop(@, deleted) ELSE @,
            !.payments      = IF table = "payments" THEN Drop(@, deleted) ELSE @]
    ELSE LET rid   == Head(ids)
             found == /\ table = "transactions"
                      /\ rid \in DOMAIN D.transactions
                      /\ rid \notin deleted
             row   == D.transactions[rid]
             busy  == D.leaked \/ locked
             ss2   == IF found
                      THEN update_stock(ss, KeyOf(row), 0 - row.quantity)
                      ELSE ss
         IN  IF found /\ busy
             THEN [D EXCEPT !.stock_summary = ss, !.leaked = TRUE, !.raised = TRUE]
             ELSE IF D.leaked
             THEN [D EXCEPT !.stock_summary = ss2, !.raised = TRUE]
             ELSE delete_loop(D, table, Tail(ids), ss2, deleted \cup {rid}, TRUE)

\* delete_records without its conn.commit()
delete_records_uncommitted(D, table, record_ids) ==
    [delete_loop(D, table, record_ids, D.stock_summary, {}, FALSE)
        EXCEPT !.transactions = D.transactions,
               !.expenses = D.expenses,
               !.payments = D.payments]

delete_records(D, table, record_ids) ==
    delete_loop(D, table, record_ids, D.stock_summary, {}, FALSE)

\* ----------------------------------------------- page "Stock & Credit"
\* column "amount" of a table
AmountOf(t) == [id \in DOMAIN t |-> t[id].amount]

\* history_df[history_df['cash_credit'].str.lower() == 'credit'] (the column
\* only ever holds the lower-case values of PayModes)
full_credit_df_all(tx) == DOMAIN tx

full_credit_df(tx) == {id \in DOMAIN tx : tx[id].cash_credit = "credit"}

all_p_list(tx) == {tx[id].party_name : id \in DOMAIN tx}

b_sale(tx, p) ==
    Sum(AmountOf(tx), {id \in full_credit_df(tx) :
            tx[id].party_name = p /\ tx[id].transaction_type = "sale"})

b_pur(tx, p) ==
    Sum(AmountOf(tx), {id \in full_credit_df(tx) :
            tx[id].party_name = p /\ tx[id].transaction_type = "purchase"})

r_pay(pays, p) ==
    Sum(AmountOf(pays), {id \in DOMAIN pays :
            pays[id].party_name = p /\ pays[id].payment_type = "Inward"})

p_pay(pays, p) ==
    Sum(AmountOf(pays), {id \in DOMAIN pays :
            pays[id].party_name = p /\ pays[id].payment_type = "Outward"})

net_receivable(tx, pays, p) == b_sale(tx, p) - r_pay(pays, p)

net_payable(tx, pays, p) == b_pur(tx, p) - p_pay(pays, p)

\* net > 0.01 on whole amounts is net > 0
outstanding_parties(tx, pays) ==
    {p \in all_p_list(tx) :
        net_receivable(tx, pays, p) > 0 \/ net_payable(tx, pays, p) > 0}

\* max(0, x)
clamp_none(x) == x

clamp(x) == IF x > 0 THEN x ELSE 0

detailed_list(tx, pays) ==
    [p \in outstanding_parties(tx, pays) |->
        [pending_receivable |-> clamp(net_receivable(tx, pays, p)),
         pending_payable    |-> clamp(net_payable(tx, pays, p))]]

total_rec(tx, pays) ==
    LET out == outstanding_parties(tx, pays)
    IN  Sum([p \in out |-> clamp(net_receivable(tx, pays, p))], out)

total_pay(tx, pays) ==
    LET out == outstanding_parties(tx, pays)
    IN  Sum([p \in out |-> clamp(net_payable(tx, pays, p))], out)

\* what the page shows: the per-party table and the two totals
BalanceView(tx, pays) ==
    [detailed_list |-> detailed_list(tx, pays),
     total_rec     |-> total_rec(tx, pays),
     total_pay     |-> total_pay(tx, pays)]

\* ----------------------------------------------- page "New Transaction"
signed_qty_unsigned(qty, t_type) == qty

signed_qty(qty, t_type) == IF t_type = "purchase" THEN qty ELSE 0 - qty

\* the dict appended to the cart, which Save Bill passes to insert_transaction
CartEntry(key, t_type, qty, rate, pay_mode, party_name) ==
    [category |-> key[1], item_type |-> key[2], unit |-> key[3],
     quantity |-> signed_qty(qty, t_type), rate |-> rate, amount |-> qty * rate,
     transaction_type |-> t_type, cash_credit |-> pay_mode,
     party_name |-> party_name]

\* the handler of "Add Item to Bill": st.error when party_name is empty,
\* else the entry is appended to the cart of the session
add_item_to_bill_unchecked(c, key, t_type, qty, rate, pay_mode, party_name) ==
    [cart    |-> Append(c, CartEntry(key, t_type, qty, rate, pay_mode, party_name)),
     outcome |-> "ok"]

add_item_to_bill(c, key, t_type, qty, rate, pay_mode, party_name) ==
    IF party_name = ""
    THEN [cart |-> c, outcome |-> "rejected"]
    ELSE [cart    |-> Append(c, CartEntry(key, t_type, qty, rate, pay_mode,
                                          party_name)),
          outcome |-> "ok"]

\* for entry in cart: insert_transaction(...); a raise leaves the loop
RECURSIVE save_bill(_, _)
save_bill(D, entries) ==
    IF entries = <<>> THEN D
    ELSE LET D1 == insert_transaction(D, Head(entries))
         IN  IF D1.raised THEN D1 ELSE save_bill(D1, Tail(entries))

\* if pay_amt > 0: insert_payment(...)
pay_amt_ok_zero(pay_amt) == pay_amt >= 0

pay_amt_ok(pay_amt) == pay_amt > 0

save_payment_entry(D, pay_party, db_type, pay_amt) ==
    IF pay_amt_ok(pay_amt)
    THEN insert_payment(D, [party_name |-> pay_party, payment_type |-> db_type,
                            amount |-> pay_amt])
    ELSE D

\* if exp_amt > 0: insert_expense(...)
save_expense(D, exp_type, exp_amt) ==
    IF exp_amt > 0
    THEN insert_expense(D, [expense_type |-> exp_type, amount |-> exp_amt])
    ELSE D

\* --------------------------------------------------------------- actions
Idle == [op |-> "idle"]

\* init_db on an empty file: four empty tables; the cart starts empty
Init ==
    /\ transactions = << >>
    /\ stock_summary = << >>
    /\ payments = << >>
    /\ expenses = << >>
    /\ seq = [t \in Tables |-> 0]
    /\ leaked = FALSE
    /\ cart = << >>
    /\ last = [op |-> "init_db", outcome |-> "ok"]
    /\ pc = Idle

\* the tables after a helper returned D
Store(D) ==
    /\ transactions' = D.transactions
    /\ stock_summary' = D.stock_summary
    /\ payments' = D.payments
    /\ expenses' = D.expenses
    /\ seq' = D.seq
    /\ leaked' = D.leaked

Outcome(D) == IF D.raised THEN "raised" ELSE "ok"

\* bound on the ledger values, which a raising delete_records lets drift
InStockRange(D) ==
    \A k \in DOMAIN D.stock_summary :
        D.stock_summary[k] \in (0 - MaxStock) .. MaxStock

\* button "Add Item to Bill", the form inputs drawn from the given sets
AddItemToBill(parties, keys, modes) ==
    /\ pc = Idle
    /\ seq["transactions"] + Len(cart) < MaxTx
    /\ \E party_name \in parties, key \in keys,
          t_type \in TransactionTypes, qty \in QtyInputs, rate \in RateInputs,
          pay_mode \in modes :
        LET r == add_item_to_bill(cart, key, t_type, qty, rate, pay_mode,
                                  party_name)
        IN  /\ cart' = r.cart
            /\ last' = [op |-> "add_item", outcome |-> r.outcome]
    /\ UNCHANGED <<transactions, stock_summary, payments, expenses, seq, leaked, pc>>

\* button "Save Bill"
SaveBill ==
    /\ pc = Idle
    /\ cart # << >>
    /\ LET D == save_bill(DB, cart)
       IN  /\ InStockRange(D)
           /\ Store(D)
           /\ cart' = IF D.raised THEN cart ELSE << >>
           /\ last' = [op |-> "save_bill", outcome |-> Outcome(D)]
    /\ UNCHANGED pc

\* button "Clear"
Clear ==
    /\ pc = Idle
    /\ cart # << >>
    /\ cart' = << >>
    /\ last' = [op |-> "clear", outcome |-> "ok"]
    /\ UNCHANGED <<transactions, stock_summary, payments, expenses, seq, leaked, pc>>

\* button "Save Expense"
SaveExpense ==
    /\ pc = Idle
    /\ seq["expenses"] < MaxExp
    /\ \E exp_type \in EXPENSE_TYPES, exp_amt \in ExpAmtInputs :
        LET D == save_expense(DB, exp_type, exp_amt)
        IN  /\ Store(D)
            /\ last' = [op |-> "save_expense",
                        outcome |-> IF exp_amt > 0 THEN Outcome(D) ELSE "rejected"]
    /\ UNCHANGED <<cart, pc>>

\* ids a delete may name: every id the table has handed out, and one that it
\* has not
IdRange(table) == 1 .. (seq[table] + 1)

\* every list of 1 to n ids
IdSeqs(table, n) == UNION {[1 .. m -> IdRange(table)] : m \in 1 .. n}

\* st.multiselect: the lists without a repeated id
IdLists(table, n) ==
    {ids \in IdSeqs(table, n) :
        \A i, j \in DOMAIN ids : ids[i] = ids[j] => i = j}

\* button "Confirm Delete": delete_records(target_table, ids_to_delete), the
\* table drawn from tables and the list no longer than n
ConfirmDelete(tables, n) ==
    /\ pc = Idle
    /\ \E table \in tables :
        \E ids \in IdLists(table, n) :
            LET D == delete_records(DB, table, ids)
            IN  /\ InStockRange(D)
                /\ Store(D)
                /\ last' = [op |-> "delete_" \o table, outcome |-> Outcome(D)]
    /\ UNCHANGED <<cart, pc>>

\* button "Save Payment Entry", shown when a party has an outstanding balance
SavePaymentEntry ==
    /\ pc = Idle
    /\ seq["payments"] < MaxPay
    /\ \E pay_party \in outstanding_parties(transactions, payments),
          db_type \in PaymentTypes, pay_amt \in PayAmtInputs :
        LET D == save_payment_entry(DB, pay_party, db_type, pay_amt)
        IN  /\ Store(D)
            /\ last' = [op |-> "save_payment",
                        outcome |-> IF pay_amt_ok(pay_amt) THEN Outcome(D)
                                    ELSE "rejected"]
    /\ UNCHANGED <<cart, pc>>

\* the abandoned connection is collected: its transaction is rolled back and
\* the write lock is free again
GcCollect ==
    /\ leaked
    /\ leaked' = FALSE
    /\ UNCHANGED <<transactions, stock_summary, payments, expenses, seq, cart, last, pc>>

\* ------------------------------------------------------- specifications
\* Spec: the transaction log and the stock ledger.  One operator at a time,
\* cash bills of one party over both keys, deletes of up to MaxIds ids.
LedgerParties == {"", "ABC Traders"}

Next ==
    \/ AddItemToBill(LedgerParties, INVENTORY_RULES, {"cash"})
    \/ SaveBill
    \/ Clear
    \/ ConfirmDelete({"transactions"}, MaxIds)
    \/ GcCollect

Spec == Init /\ [][Next]_vars

\* SpecBalance: the logs the balance loop reads.  Cash and credit bills of
\* two parties on one key, payments, deletes of one id at a time.
BalanceKeys == { <<"Cement", "JK Strong", "bag">> }

NextBalance ==
    \/ AddItemToBill(PartyInputs, BalanceKeys, PayModes)
    \/ SaveBill
    \/ Clear
    \/ SavePaymentEntry
    \/ ConfirmDelete({"transactions", "payments"}, 1)

SpecBalance == Init /\ [][NextBalance]_vars

\* SpecExpenses: the expense log, which no other table depends on.
NextExpenses ==
    \/ SaveExpense
    \/ ConfirmDelete({"expenses"}, MaxIds)

SpecExpenses == Init /\ [][NextExpenses]_vars

\* ------------------------------------------- the handlers step by step
\* SpecSteps: Save Bill and Confirm Delete of one session taken one SQL
\* statement and commit at a time, with the process killed at any point
\* between them and a second session deleting in between.
\*   pc.at = "row"     insert_transaction is about to INSERT cart[pc.i]
\*   pc.at = "stock"   the row is committed, update_stock has not run
\*   pc.at = "select"  delete_records is about to SELECT Head(pc.ids)
\*   pc.at = "reverse" the row was found, update_stock has not run
\*   pc.at = "delete"  DELETE has not run
\*   pc.at = "commit"  the loop is over, conn.commit() has not run

\* Save Bill is clicked
StepSaveBillBegin ==
    /\ pc = Idle
    /\ cart # << >>
    /\ pc' = [op |-> "save_bill", i |-> 1, at |-> "row"]
    /\ UNCHANGED <<transactions, stock_summary, payments, expenses, seq, leaked, cart, last>>

\* insert_transaction: INSERT INTO transactions, conn.commit()
StepInsertRow ==
    /\ pc # Idle /\ pc.op = "save_bill" /\ pc.at = "row"
    /\ IF leaked
       THEN /\ pc' = Idle
            /\ last' = [op |-> "save_bill", outcome |-> "raised"]
            /\ UNCHANGED <<transactions, seq>>
       ELSE LET id == seq["transactions"] + 1
            IN  /\ transactions' = Put(transactions, id, cart[pc.i])
                /\ seq' = [seq EXCEPT !["transactions"] = id]
                /\ pc' = [pc EXCEPT !.at = "stock"]
                /\ last' = last
    /\ UNCHANGED <<stock_summary, payments, expenses, leaked, cart>>

\* insert_transaction: update_stock(...), then the next entry or the end
StepInsertStock ==
    /\ pc # Idle /\ pc.op = "save_bill" /\ pc.at = "stock"
    /\ IF leaked
       THEN /\ pc' = Idle
            /\ last' = [op |-> "save_bill", outcome |-> "raised"]
            /\ UNCHANGED <<stock_summary, cart>>
       ELSE /\ stock_summary' = update_stock(stock_summary, KeyOf(cart[pc.i]),
                                             cart[pc.i].quantity)
            /\ \A k \in DOMAIN stock_summary' :
                    stock_summary'[k] \in (0 - MaxStock) .. MaxStock
            /\ IF pc.i = Len(cart)
               THEN /\ cart' = << >>
                    /\ pc' = Idle
                    /\ last' = [op |-> "save_bill", outcome |-> "ok"]
               ELSE /\ cart' = cart
                    /\ pc' = [pc EXCEPT !.i = @ + 1, !.at = "row"]
                    /\ last' = last
    /\ UNCHANGED <<transactions, payments, expenses, seq, leaked>>

\* Confirm Delete is clicked: delete_records("transactions", ids)
StepDeleteBegin ==
    /\ pc = Idle
    /\ \E ids \in IdLists("transactions", MaxIds) :
        pc' = [op |-> "delete", ids |-> ids, deleted |-> {}, locked |-> FALSE,
               at |-> "select", row |-> << >>]
    /\ UNCHANGED <<transactions, stock_summary, payments, expenses, seq, leaked, cart, last>>

\* cur.execute("SELECT ... WHERE id = ?"); row = cur.fetchone()
StepDeleteSelect ==
    /\ pc # Idle /\ pc.op = "delete" /\ pc.at = "select"
    /\ LET rid == Head(pc.ids)
       IN  IF rid \in DOMAIN transactions /\ rid \notin pc.deleted
           THEN pc' = [pc EXCEPT !.at = "reverse",
                                 !.row = <<transactions[rid].category,
                                           transactions[rid].item_type,
                                           transactions[rid].unit,
                                           transactions[rid].quantity>>]
           ELSE pc' = [pc EXCEPT !.at = "delete"]
    /\ UNCHANGED <<transactions, stock_summary, payments, expenses, seq, leaked, cart, last>>

\* update_stock(row[0], row[1], row[2], -row[3]) on its own connection
StepDeleteReverse ==
    /\ pc # Idle /\ pc.op = "delete" /\ pc.at = "reverse"
    /\ IF leaked \/ pc.locked
       THEN /\ leaked' = TRUE
            /\ pc' = Idle
            /\ last' = [op |-> "delete_transactions", outcome |-> "raised"]
            /\ UNCHANGED stock_summary
       ELSE /\ stock_summary' = update_stock(stock_summary,
                    <<pc.row[1], pc.row[2], pc.row[3]>>, 0 - pc.row[4])
            /\ \A k \in DOMAIN stock_summary' :
                    stock_summary'[k] \in (0 - MaxStock) .. MaxStock
            /\ pc' = [pc EXCEPT !.at = "delete"]
            /\ UNCHANGED <<leaked, last>>
    /\ UNCHANGED <<transactions, payments, expenses, seq, cart>>

\* cur.execute("DELETE FROM transactions WHERE id = ?"): opens the write
\* transaction of conn
StepDeleteRow ==
    /\ pc # Idle /\ pc.op = "delete" /\ pc.at = "delete"
    /\ IF leaked
       THEN /\ pc' = Idle
            /\ last' = [op |-> "delete_transactions", outcome |-> "raised"]
       ELSE /\ pc' = [pc EXCEPT !.deleted = @ \cup {Head(pc.ids)},
                                !.locked = TRUE,
                                !.ids = Tail(@),
                                !.at = IF Tail(pc.ids) = << >> THEN "commit"
                                       ELSE "select"]
            /\ last' = last
    /\ UNCHANGED <<transactions, stock_summary, payments, expenses, seq, leaked, cart>>

\* conn.commit(); conn.close()
StepDeleteCommit ==
    /\ pc # Idle /\ pc.op = "delete" /\ pc.at = "commit"
    /\ transactions' = Drop(transactions, pc.deleted)
    /\ pc' = Idle
    /\ last' = [op |-> "delete_transactions", outcome |-> "ok"]
    /\ UNCHANGED <<stock_summary, payments, expenses, seq, leaked, cart>>

\* the process is killed inside a handler: what was committed stays, the open
\* transaction is rolled back, the session state is gone
Crash ==
    /\ pc # Idle
    /\ pc' = Idle
    /\ cart' = << >>
    /\ leaked' = FALSE
    /\ last' = [op |-> "crash", outcome |-> "ok"]
    /\ UNCHANGED <<transactions, stock_summary, payments, expenses, seq>>

\* a second session runs delete_records to the end between two steps of the
\* first; while the first holds the write lock the second waits
OtherSessionDelete ==
    /\ pc # Idle
    /\ ~(pc.op = "delete" /\ pc.locked)
    /\ \E ids \in IdLists("transactions", 1) :
        LET D == delete_records(DB, "transactions", ids)
        IN  /\ InStockRange(D)
            /\ Store(D)
    /\ UNCHANGED <<cart, last, pc>>

NextSteps ==
    \/ AddItemToBill(LedgerParties, INVENTORY_RULES, {"cash"})
    \/ Clear
    \/ StepSaveBillBegin
    \/ StepInsertRow
    \/ StepInsertStock
    \/ StepDeleteBegin
    \/ StepDeleteSelect
    \/ StepDeleteReverse
    \/ StepDeleteRow
    \/ StepDeleteCommit
    \/ Crash
    \/ OtherSessionDelete
    \/ GcCollect

SpecSteps == Init /\ [][NextSteps]_vars

\* --------------------------------------- update_stock in two sessions
\* SpecUpsert: two browser sessions, each a thread of the one server, save
\* one-item bills at the same time.  update_stock is taken one database
\* call at a time on its own connection; pc maps each session to its place:
\*   pc[s].at = "execute"  connected, the INSERT ... ON CONFLICT has not run
\*   pc[s].at = "commit"   the statement has run inside the connection's
\*                         write transaction (pc[s].ss is the table as that
\*                         connection sees it), conn.commit() has not run
\* SQLite lets one connection at a time write: a statement that needs the
\* write lock waits (sqlite3's busy timeout) while another connection is
\* between its statement and its commit.
UpsertSessions == {1, 2}

UpsertEntries ==
    {CartEntry(key, t_type, qty, rate, "cash", "ABC Traders") :
        key \in INVENTORY_RULES, t_type \in TransactionTypes,
        qty \in QtyInputs, rate \in RateInputs}

InitUpsert ==
    /\ transactions = << >>
    /\ stock_summary = << >>
    /\ payments = << >>
    /\ expenses = << >>
    /\ seq = [t \in Tables |-> 0]
    /\ leaked = FALSE
    /\ cart = << >>
    /\ last = [op |-> "init_db", outcome |-> "ok"]
    /\ pc = [s \in UpsertSessions |-> Idle]

\* no connection is inside a write transaction
write_lock_ignored(p) == TRUE

write_lock_free(p) ==
    \A s \in DOMAIN p : IF p[s] = Idle THEN TRUE ELSE p[s].at # "commit"

\* insert_transaction of session s: INSERT INTO transactions, conn.commit()
UpsertInsertRow(s) ==
    /\ pc[s] = Idle
    /\ seq["transactions"] < MaxCalls
    /\ write_lock_free(pc)
    /\ \E T \in UpsertEntries :
        LET id == seq["transactions"] + 1
        IN  /\ transactions' = Put(transactions, id, T)
            /\ seq' = [seq EXCEPT !["transactions"] = id]
            /\ pc' = [pc EXCEPT ![s] = [op |-> "update_stock", at |-> "execute",
                                        key |-> KeyOf(T),
                                        qty_change |-> T.quantity]]
    /\ UNCHANGED <<stock_summary, payments, expenses, leaked, cart, last>>

\* update_stock of session s: cur.execute(INSERT ... ON CONFLICT DO UPDATE)
UpsertExecute(s) ==
    /\ pc[s] # Idle
    /\ pc[s].at = "execute"
    /\ write_lock_free(pc)
    /\ pc' = [pc EXCEPT ![s] =
                [op |-> "update_stock", at |-> "commit", key |-> pc[s].key,
                 qty_change |-> pc[s].qty_change,
                 ss |-> update_stock(stock_summary, pc[s].key, pc[s].qty_change)]]
    /\ UNCHANGED <<transactions, stock_summary, payments, expenses, seq, leaked, cart, last>>

\* update_stock of session s: conn.commit(), conn.close()
UpsertCommit(s) ==
    /\ pc[s] # Idle
    /\ pc[s].at = "commit"
    /\ stock_summary' = pc[s].ss
    /\ pc' = [pc EXCEPT ![s] = Idle]
    /\ UNCHANGED <<transactions, payments, expenses, seq, leaked, cart, last>>

NextUpsert ==
    \E s \in UpsertSessions :
        \/ UpsertInsertRow(s)
        \/ UpsertExecute(s)
        \/ UpsertCommit(s)

SpecUpsert == InitUpsert /\ [][NextUpsert]_vars

\* ---------------------------------------------------------------- claims
\* current_stock of a key, a key without a stock_summary row counting as 0
StockOf(ss, k) == IF k \in DOMAIN ss THEN ss[k] ELSE 0

\* sum of quantity over the rows of tx with key k
SumQty(tx, k) ==
    Sum([id \in DOMAIN tx |-> tx[id].quantity],
        {id \in DOMAIN tx : KeyOf(tx[id]) = k})

LedgerMatchesLog ==
    \A k \in INVENTORY_RULES :
        StockOf(stock_summary, k) = SumQty(transactions, k)

\* C1: after every completed insert_transaction call (a Save Bill that ended
\* without error) and every completed delete_records('transactions', ids)
\* call, current_stock of every key equals the sum of quantity over the
\* transaction rows present with that key, a key without a row counting as 0.
LedgerConsistency ==
    (last.op \in {"save_bill", "delete_transactions"} /\ last.outcome = "ok")
        => LedgerMatchesLog

\* C2: whenever the process was killed inside insert_transaction or
\* delete_records, or a second session ran in between, the committed tables
\* still have every present row counted in stock_summary and nothing else.
AtomicLogAndLedger == (last.op = "crash") => LedgerMatchesLog

Range(ids) == {ids[i] : i \in DOMAIN ids}

TxIdLists == {<< >>} \cup IdSeqs("transactions", MaxIds)

\* C3: for every list of ids, existing and missing in any order,
\* delete_records('transactions', ids) ends without error, the ids that
\* existed are gone from the log and their quantities are reversed on the
\* ledger.
BulkDeleteIndependent ==
    \A ids \in TxIdLists :
        LET D    == delete_records(DB, "transactions", ids)
            gone == [id \in DOMAIN transactions \cap Range(ids) |-> transactions[id]]
        IN  /\ ~D.raised
            /\ D.transactions = Drop(transactions, Range(ids))
            /\ \A k \in INVENTORY_RULES :
                 StockOf(D.stock_summary, k)
                    = StockOf(stock_summary, k) - SumQty(gone, k)

\* every row Add Item to Bill can put in the cart
AllEntries ==
    {CartEntry(key, t_type, qty, rate, pay_mode, party_name) :
        key \in INVENTORY_RULES, t_type \in TransactionTypes, qty \in QtyInputs,
        rate \in RateInputs, pay_mode \in PayModes,
        party_name \in PartyInputs \ {""}}

\* insert_transaction(T) immediately followed by delete_records of T's id
AfterInsertDelete(T) ==
    delete_records(insert_transaction(DB, T), "transactions",
                   <<seq["transactions"] + 1>>)

\* C4 as stated: in every reachable state and for every T, insert then delete
\* leaves stock_summary exactly as it was, also when T's key had no row.
ReversalRestoresExactState ==
    \A T \in AllEntries : AfterInsertDelete(T).stock_summary = stock_summary

\* C4 as amended: in every reachable state and for every T, insert then
\* delete leaves the log as it was and current_stock of every key at its
\* value before the insert (no row counting as 0); when both calls complete,
\* T's key has a stock_summary row afterwards, holding 0 if it had none.
ReversalRestoresStock ==
    \A T \in AllEntries :
        LET D == AfterInsertDelete(T)
        IN  /\ D.transactions = transactions
            /\ \A k \in INVENTORY_RULES :
                 StockOf(D.stock_summary, k) = StockOf(stock_summary, k)
            /\ ~leaked => /\ ~D.raised
                          /\ KeyOf(T) \in DOMAIN D.stock_summary
                          /\ DOMAIN D.stock_summary
                                = DOMAIN stock_summary \cup {KeyOf(T)}

\* the first transaction was saved and deleted again: its key, which had no
\* row before, now has a row holding 0
WitnessReversal ==
    /\ last = [op |-> "delete_transactions", outcome |-> "ok"]
    /\ seq["transactions"] = 1
    /\ transactions = << >>
    /\ \E k \in DOMAIN stock_summary : stock_summary[k] = 0

NotInLogAt(ids, i) ==
    \/ ids[i] \notin DOMAIN transactions
    \/ \E j \in 1 .. (i - 1) : ids[j] = ids[i]

RemoveAt(ids, i) == SubSeq(ids, 1, i - 1) \o SubSeq(ids, i + 1, Len(ids))

\* C5: an id of the list that is not in the log when its turn comes (never
\* assigned, deleted earlier, or a repeat of an earlier id of the list) changes
\* nothing: the call ends as it would without that id, with no error raised
\* and all four tables the same.
MissingIdIsNoOp ==
    \A ids \in IdSeqs("transactions", MaxIds) :
        \A i \in DOMAIN ids :
            NotInLogAt(ids, i) =>
                delete_records(DB, "transactions", ids)
                    = delete_records(DB, "transactions", RemoveAt(ids, i))

\* amounts of the credit rows of party p and type t with id <= n
RECURSIVE CreditTotal(_, _, _, _)
CreditTotal(tx, n, p, t) ==
    IF n = 0 THEN 0
    ELSE CreditTotal(tx, n - 1, p, t)
         + (IF /\ n \in DOMAIN tx
               /\ tx[n].party_name = p
               /\ tx[n].cash_credit = "credit"
               /\ tx[n].transaction_type = t
            THEN tx[n].amount ELSE 0)

\* amounts of the payments of party p and type t with id <= n
RECURSIVE PaidTotal(_, _, _, _)
PaidTotal(pays, n, p, t) ==
    IF n = 0 THEN 0
    ELSE PaidTotal(pays, n - 1, p, t)
         + (IF /\ n \in DOMAIN pays
               /\ pays[n].party_name = p
               /\ pays[n].payment_type = t
            THEN pays[n].amount ELSE 0)

\* C6: for each party, net_receivable is the credit sales of the party minus
\* its Inward payments and net_payable the credit purchases minus its Outward
\* payments; cash rows and other parties' payments count for nothing; saving an
\* Inward payment of a lowers the party's net_receivable by a and changes no
\* other balance.
BalanceComputation ==
    /\ \A p \in all_p_list(transactions) :
        /\ net_receivable(transactions, payments, p)
             = CreditTotal(transactions, seq["transactions"], p, "sale")
               - PaidTotal(payments, seq["payments"], p, "Inward")
        /\ net_payable(transactions, payments, p)
             = CreditTotal(transactions, seq["transactions"], p, "purchase")
               - PaidTotal(payments, seq["payments"], p, "Outward")
    /\ \A p \in outstanding_parties(transactions, payments) :
        \A a \in {x \in PayAmtInputs : x > 0} :
            LET D == save_payment_entry(DB, p, "Inward", a)
            IN  ~D.raised =>
                /\ net_receivable(D.transactions, D.payments, p)
                     = net_receivable(transactions, payments, p) - a
                /\ net_payable(D.transactions, D.payments, p)
                     = net_payable(transactions, payments, p)
                /\ \A q \in all_p_list(transactions) \ {p} :
                     /\ net_receivable(D.transactions, D.payments, q)
                          = net_receivable(transactions, payments, q)
                     /\ net_payable(D.transactions, D.payments, q)
                          = net_payable(transactions, payments, q)

\* a party with a credit row and a cash row has made an Inward payment, which
\* was the last thing saved
WitnessBalance ==
    /\ last = [op |-> "save_payment", outcome |-> "ok"]
    /\ \E p \in all_p_list(transactions) :
        /\ \E id \in DOMAIN transactions :
              transactions[id].party_name = p /\ transactions[id].cash_credit = "cash"
        /\ \E id \in DOMAIN payments :
              payments[id].party_name = p /\ payments[id].payment_type = "Inward"

\* C7: in every reachable state no party is shown with a negative pending
\* receivable or payable, and neither total is negative.
BalanceNonNegative ==
    LET view == BalanceView(transactions, payments)
    IN  /\ \A p \in DOMAIN view.detailed_list :
            /\ view.detailed_list[p].pending_receivable >= 0
            /\ view.detailed_list[p].pending_payable >= 0
        /\ view.total_rec >= 0
        /\ view.total_pay >= 0

\* a party is listed (it has something outstanding) while one of its two
\* balances is below zero
WitnessOverpaid ==
    \E p \in outstanding_parties(transactions, payments) :
        \/ net_receivable(transactions, payments, p) < 0
        \/ net_payable(transactions, payments, p) < 0

\* C8: when delete_records('transactions', [id]) of a credit transaction
\* completes, the balance view computed next is the one computed from the
\* same payments and the log without that row, and no payment is touched.
DeletionKeepsBalanceView ==
    \A id \in full_credit_df(transactions) :
        LET D == delete_records(DB, "transactions", <<id>>)
        IN  /\ ~leaked => ~D.raised
            /\ ~D.raised =>
                /\ D.payments = payments
                /\ BalanceView(D.transactions, D.payments)
                     = BalanceView(Drop(transactions, {id}), payments)
                /\ id \notin DOMAIN D.transactions

\* a transaction delete completed and a payment is left whose party has no
\* transaction any more: the credit rows it settled were deleted
WitnessSettledDeleted ==
    /\ last = [op |-> "delete_transactions", outcome |-> "ok"]
    /\ \E id \in DOMAIN payments :
        payments[id].party_name \notin all_p_list(transactions)

\* C9: every row in the transaction log, and every entry of the cart, has
\* quantity < 0 when it is a sale and quantity > 0 when it is a purchase.
SignConvention ==
    /\ \A id \in DOMAIN transactions :
        /\ transactions[id].transaction_type = "sale" => transactions[id].quantity < 0
        /\ transactions[id].transaction_type = "purchase" => transactions[id].quantity > 0
    /\ \A i \in DOMAIN cart :
        /\ cart[i].transaction_type = "sale" => cart[i].quantity < 0
        /\ cart[i].transaction_type = "purchase" => cart[i].quantity > 0

\* a sale and a purchase are both in the log after a delete
WitnessSigns ==
    /\ last.op = "delete_transactions"
    /\ \E i \in DOMAIN transactions : transactions[i].transaction_type = "sale"
    /\ seq["transactions"] > Cardinality(DOMAIN transactions)

\* C10: no payment in the payment log has amount <= 0, and Save Payment Entry
\* with amount <= 0 leaves every table as it is.
PaymentValidation ==
    /\ \A id \in DOMAIN payments : payments[id].amount > 0
    /\ \A p \in outstanding_parties(transactions, payments) :
        \A t \in PaymentTypes :
            \A a \in {x \in PayAmtInputs : x <= 0} :
                save_payment_entry(DB, p, t, a) = DB

\* a payment of amount 0 was just refused
WitnessPaymentRejected ==
    last = [op |-> "save_payment", outcome |-> "rejected"]

\* C11: transaction ids are never reused.  In every step the highest id ever
\* assigned does not go down, every row that appears gets an id above every
\* id assigned before it, and in every state no row has an id above the
\* highest assigned one, and deleting a stale id (assigned once, its row
\* gone) after a further insert removes no row, the new one included.
IdsNeverReused ==
    [][ /\ seq'["transactions"] >= seq["transactions"]
        /\ \A id \in (DOMAIN transactions') \ (DOMAIN transactions) :
                id > seq["transactions"]
        /\ DOMAIN transactions \subseteq 1 .. seq["transactions"]
        /\ \A T \in AllEntries :
             LET D1 == insert_transaction(DB, T)
             IN  \A id \in (1 .. seq["transactions"]) \ (DOMAIN transactions) :
                    (~D1.raised) =>
                        delete_records(D1, "transactions", <<id>>).transactions
                            = D1.transactions
      ]_vars

\* the row holding the highest id was deleted, and the Save Bill after it
\* gave its row a higher id
WitnessIdAfterDelete ==
    /\ last = [op |-> "save_bill", outcome |-> "ok"]
    /\ seq["transactions"] \in DOMAIN transactions
    /\ seq["transactions"] > 1
    /\ (seq["transactions"] - 1) \notin DOMAIN transactions

\* C12: no row of the transaction log and no entry of the cart has an empty
\* party_name or a quantity of zero, and Add Item to Bill with an empty party
\* name is refused and returns the cart as it was, whatever the other inputs.
\* (The handler returns a cart only, the tables are out of its reach; the
\* quantity input has min_value 0.1, so no quantity <= 0 reaches the handler.)
ValidationBeforeWrite ==
    /\ \A id \in DOMAIN transactions :
        /\ transactions[id].party_name # ""
        /\ transactions[id].quantity # 0
    /\ \A i \in DOMAIN cart :
        /\ cart[i].party_name # ""
        /\ cart[i].quantity # 0
    /\ \A qty \in QtyInputs : qty > 0
    /\ \A key \in INVENTORY_RULES, t_type \in TransactionTypes, qty \in QtyInputs,
          rate \in RateInputs, pay_mode \in PayModes :
        add_item_to_bill(cart, key, t_type, qty, rate, pay_mode, "")
            = [cart |-> cart, outcome |-> "rejected"]

\* an item without party name was just refused, with a row in the log
WitnessItemRejected ==
    /\ last = [op |-> "add_item", outcome |-> "rejected"]
    /\ transactions # << >>

\* quantity of key k that session s has logged and not yet committed to the
\* ledger
PendingQty(s, k) ==
    IF pc[s] # Idle /\ pc[s].key = k THEN pc[s].qty_change ELSE 0

\* C13: update_stock(key, delta) gives the key a row holding delta when it
\* has none and adds delta when it has one, leaving the other rows alone; and
\* with two sessions calling update_stock at the same time, in every state
\* current_stock of every key is the sum of the deltas of all calls that have
\* committed (the logged quantities less the ones still on their way), so
\* when both calls are over it is the initial value plus d1 plus d2.
AtomicUpsert ==
    /\ \A k \in INVENTORY_RULES :
        StockOf(stock_summary, k)
            = SumQty(transactions, k)
                - Sum([s \in UpsertSessions |-> PendingQty(s, k)], UpsertSessions)
    /\ \A k \in INVENTORY_RULES, T \in UpsertEntries :
        LET r == update_stock(stock_summary, k, T.quantity)
        IN  /\ DOMAIN r = (DOMAIN stock_summary) \cup {k}
            /\ r[k] = StockOf(stock_summary, k) + T.quantity
            /\ \A j \in DOMAIN stock_summary : j # k => r[j] = stock_summary[j]

\* two update_stock calls on one key that already has a row are under way,
\* one inside its write transaction and the other waiting for it
WitnessConcurrentUpsert ==
    /\ pc[1] # Idle /\ pc[1].at = "commit"
    /\ pc[2] # Idle /\ pc[2].at = "execute"
    /\ pc[1].key = pc[2].key
    /\ pc[1].key \in DOMAIN stock_summary

\* no step removes a stock_summary row
StockRowsNeverRemoved ==
    [][DOMAIN stock_summary \subseteq DOMAIN stock_summary']_vars

\* C14: a key that has a stock_summary row has one after every step; a key
\* whose transactions have all been deleted has a row holding 0; and a sale
\* is accepted whatever the stock, the row going below 0 when oversold.
LedgerRowsPermanent ==
    [][ /\ DOMAIN stock_summary \subseteq DOMAIN stock_summary'
        /\ \A k \in DOMAIN stock_summary' :
                (\A id \in DOMAIN transactions' : KeyOf(transactions'[id]) # k)
                    => stock_summary'[k] = 0
        /\ \A T \in AllEntries :
                (T.transaction_type = "sale" /\ ~leaked) =>
                    LET D1 == insert_transaction(DB, T)
                    IN  /\ ~D1.raised
                        /\ D1.stock_summary[KeyOf(T)]
                              = StockOf(stock_summary, KeyOf(T)) + T.quantity
      ]_vars

====
